---- MODULE Spec2Model ----
(***************************************************************************)
(* Model of the job scraper API of main.py: the /scrape/ handler           *)
(* (scrape_data) and its three source adapters scrape_naukri_jobs,         *)
(* scrape_indeed_jobs and scrape_monster_jobs.                             *)
(*                                                                         *)
(* Strings are sequences of one-character strings, so that strip(),        *)
(* startswith() and the href*= substring tests are computed as Python      *)
(* computes them.  A parsed page (soup) is a sequence of blocks in         *)
(* document order; a block is a candidate job card with the sequence of    *)
(* its descendant elements in document order.                              *)
(***************************************************************************)
EXTENDS Integers, Sequences, FiniteSets, TLC

(***************************************************************************)
(* Bounds                                                                  *)
(***************************************************************************)
\* largest number of blocks in one fetched page
MaxCards == 2
\* largest max_jobs passed to /scrape/
MaxLimit == 2
\* max_jobs ranges down to -MaxNeg (max_jobs is an unvalidated int)
MaxNeg == 1

(***************************************************************************)
(* Python values                                                           *)
(***************************************************************************)
\* Python's None, distinct from every string (strings hold single characters)
None == <<"None">>

\* truthiness of an Optional[str]: None and '' are falsy
Truthy(v) == v # None /\ v # <<>>

Whitespace == {" ", "\t", "\n"}

RECURSIVE LStrip(_)
LStrip(s) == IF s # <<>> /\ Head(s) \in Whitespace THEN LStrip(Tail(s)) ELSE s

RECURSIVE RStrip(_)
RStrip(s) ==
    IF s # <<>> /\ s[Len(s)] \in Whitespace THEN RStrip(SubSeq(s, 1, Len(s) - 1)) ELSE s

\* str.strip()
Strip(s) == RStrip(LStrip(s))

\* str.startswith(p)
StartsWith(s, p) == Len(s) >= Len(p) /\ SubSeq(s, 1, Len(p)) = p

\* sub in s
Contains(s, sub) ==
    \E i \in 1..(Len(s) - Len(sub) + 1) : SubSeq(s, i, i + Len(sub) - 1) = sub

Min(a, b) == IF a <= b THEN a ELSE b
Max(a, b) == IF a >= b THEN a ELSE b

\* a slice that forgets the limit
PySlice_all(s, n) == s

\* seq[:n] with Python's slice semantics: a negative n counts from the end
PySlice(s, n) ==
    IF n >= 0 THEN SubSeq(s, 1, Min(n, Len(s)))
              ELSE SubSeq(s, 1, Max(0, Len(s) + n))

(***************************************************************************)
(* String literals of the source                                           *)
(***************************************************************************)
HttpPrefix == <<"h","t","t","p">>
NotSpecified == <<"N","o","t"," ","s","p","e","c","i","f","i","e","d">>
NaukriOrigin ==
    <<"h","t","t","p","s",":","/","/","w","w","w",".","n","a","u","k","r","i",".","c","o","m">>
IndeedOrigin ==
    <<"h","t","t","p","s",":","/","/","i","n",".","i","n","d","e","e","d",".","c","o","m">>
MonsterOrigin ==
    <<"h","t","t","p","s",":","/","/","w","w","w",".","m","o","n","s","t","e","r",
      "i","n","d","i","a",".","c","o","m">>
ViewJob == <<"/","v","i","e","w","j","o","b">>
JobSlash == <<"/","j","o","b","/">>

(***************************************************************************)
(* CSS selectors.  A simple selector constrains the element's tag          *)
(* ("*" = any), its classes, a substring of its class attribute            *)
(* ([class*=..]), a substring of its href ([href*=..]) and, for the        *)
(* descendant combinator, an ancestor's tag or class substring.  A         *)
(* selector is a group: the sequence of the comma-separated alternatives.  *)
(***************************************************************************)
\* tag.cls1.cls2 (tag "*" for a bare .cls)
Sel(tag, cls) ==
    [tag |-> tag, cls |-> cls, attr |-> "", sub |-> "", ancTag |-> "", ancSub |-> "",
     hrefSub |-> <<>>]
\* [class*="sub"]
SelSub(sub) ==
    [tag |-> "*", cls |-> {}, attr |-> "", sub |-> sub, ancTag |-> "", ancSub |-> "",
     hrefSub |-> <<>>]
\* [attr]
SelAttr(attr) ==
    [tag |-> "*", cls |-> {}, attr |-> attr, sub |-> "", ancTag |-> "", ancSub |-> "",
     hrefSub |-> <<>>]
\* ancTag tag
SelUnderTag(ancTag, tag) ==
    [tag |-> tag, cls |-> {}, attr |-> "", sub |-> "", ancTag |-> ancTag, ancSub |-> "",
     hrefSub |-> <<>>]
\* [class*="ancSub"] tag
SelUnderSub(ancSub, tag) ==
    [tag |-> tag, cls |-> {}, attr |-> "", sub |-> "", ancTag |-> "", ancSub |-> ancSub,
     hrefSub |-> <<>>]
\* tag[href*="hrefSub"]
SelHref(tag, hrefSub) ==
    [tag |-> tag, cls |-> {}, attr |-> "", sub |-> "", ancTag |-> "", ancSub |-> "",
     hrefSub |-> hrefSub]

\* the class names of the modelled markup that contain the given substring
\* (case-sensitive, as [class*=..] is)
ClassesContaining(sub) ==
    CASE sub = "title"      -> {"title", "job-title"}
      [] sub = "company"    -> {"company", "company-name", "companyName", "companyLocation"}
      [] sub = "comp"       -> {"company", "company-name", "companyName", "companyLocation",
                                "comp-name", "compName"}
      [] sub = "location"   -> {"location"}
      [] sub = "loc"        -> {"loc", "location", "locWdth"}
      [] sub = "experience" -> {"experience"}
      [] sub = "exp"        -> {"exp", "experience", "expwdth"}
      [] OTHER              -> {}

\* does the element match the simple selector
MatchesSimple(el, s) ==
    /\ s.tag = "*" \/ el.tag = s.tag
    /\ s.cls \subseteq el.cls
    /\ s.attr = "" \/ s.attr \in el.attrs
    /\ s.sub = "" \/ el.cls \cap ClassesContaining(s.sub) # {}
    /\ s.ancTag = "" \/ s.ancTag \in el.ancTags
    /\ s.ancSub = "" \/ el.ancCls \cap ClassesContaining(s.ancSub) # {}
    /\ s.hrefSub = <<>> \/ (el.href # None /\ Contains(el.href, s.hrefSub))

\* does the element match any alternative of the selector group
Matches(el, group) == \E i \in 1..Len(group) : MatchesSimple(el, group[i])

\* soup.select(group): all matching elements, in document order
Select(els, group) == SelectSeq(els, LAMBDA el : Matches(el, group))

\* the None that select_one returns when nothing matches
NoElem ==
    [tag |-> "None", cls |-> {}, attrs |-> {}, ancTags |-> {}, ancCls |-> {},
     text |-> <<>>, href |-> None]

\* tag.select_one(group): the first matching element in document order, or None
SelectOne(els, group) ==
    IF Select(els, group) = <<>> THEN NoElem ELSE Head(Select(els, group))

\* elem.get_text(strip=True)
GetText(el) == Strip(el.text)

(***************************************************************************)
(* Selector tables of the three adapters                                   *)
(***************************************************************************)
job_selectors ==
    << <<Sel("*", {"srp-jobtuple-wrapper"})>>,
       <<Sel("*", {"jobTuple", "bgWhite", "br4", "mb-8"})>>,
       <<Sel("*", {"jobTuple"})>>,
       <<Sel("*", {"list"})>>,
       <<Sel("*", {"row"})>>,
       <<Sel("*", {"job-tuple"})>>,
       <<SelAttr("data-job-id")>>,
       <<Sel("*", {"cust-job-tuple"})>>,
       <<Sel("*", {"srp-jobtuple"})>> >>

title_selectors ==
    << <<Sel("a", {"title"})>>,
       <<Sel("a", {"title", "fw500", "ellipsis"})>>,
       <<Sel("*", {"job-title"})>>,
       <<Sel("*", {"title"})>>,
       <<SelUnderTag("h2", "a")>>,
       <<SelUnderSub("title", "a")>> >>

company_selectors ==
    << <<Sel("a", {"comp-name"})>>,
       <<Sel("a", {"compName"})>>,
       <<Sel("*", {"company-name"})>>,
       <<Sel("*", {"comp-name"})>>,
       <<SelSub("company")>>,
       <<SelSub("comp")>> >>

location_selectors ==
    << <<Sel("span", {"locWdth"})>>,
       <<Sel("span", {"fleft", "grey-text", "br2", "placeHolderLi", "location"})>>,
       <<Sel("*", {"location"})>>,
       <<Sel("*", {"loc"})>>,
       <<SelSub("location")>>,
       <<SelSub("loc")>> >>

exp_selectors ==
    << <<Sel("span", {"expwdth"})>>,
       <<Sel("li", {"experience"})>>,
       <<Sel("*", {"exp"})>>,
       <<Sel("*", {"experience"})>>,
       <<SelSub("exp")>>,
       <<SelSub("experience")>> >>

\* the selector groups of scrape_indeed_jobs
IndeedConfig ==
    [platform  |-> "Indeed",
     origin    |-> IndeedOrigin,
     cards     |-> <<Sel("*", {"job_seen_beacon"}), Sel("*", {"cardOutline"}),
                     Sel("*", {"jobsearch-SerpJobCard"})>>,
     title     |-> <<Sel("h2", {"jobTitle"}), Sel("a", {"jobTitle"}), Sel("h2", {"title"})>>,
     company   |-> <<Sel("span", {"companyName"}), Sel("*", {"companyName"})>>,
     location  |-> <<Sel("*", {"companyLocation"}), Sel("*", {"location"})>>,
     link      |-> <<SelHref("a", ViewJob)>>]

\* the selector groups of scrape_monster_jobs
MonsterConfig ==
    [platform  |-> "Monster",
     origin    |-> MonsterOrigin,
     cards     |-> <<Sel("*", {"card-apply-content"}), Sel("*", {"job-tile"}),
                     Sel("*", {"srp-jobtuple-wrapper"})>>,
     title     |-> <<Sel("h3", {"medium"}), Sel("a", {"job-title"}), Sel("h3", {"title"})>>,
     company   |-> <<Sel("*", {"company-name"}), Sel("*", {"company"})>>,
     location  |-> <<Sel("*", {"loc"}), Sel("*", {"location"})>>,
     link      |-> <<SelHref("a", JobSlash)>>]

(***************************************************************************)
(* Extraction from one job card                                            *)
(***************************************************************************)
\* ExtractText without the get_text test of the if: the first selector that
\* matches wins, whatever its text
RECURSIVE ExtractText_noskip(_, _, _)
ExtractText_noskip(els, selectors, i) ==
    IF i > Len(selectors) THEN None
    ELSE LET elem == SelectOne(els, selectors[i])
         IN  IF elem # NoElem
             THEN GetText(elem)
             ELSE ExtractText_noskip(els, selectors, i + 1)

\* the for/break loop over a field's selectors: the stripped text of the
\* first selector, from index i on, whose first match has non-empty text
RECURSIVE ExtractText(_, _, _)
ExtractText(els, selectors, i) ==
    IF i > Len(selectors) THEN None
    ELSE LET elem == SelectOne(els, selectors[i])
         IN  IF elem # NoElem /\ GetText(elem) # <<>>
             THEN GetText(elem)
             ELSE ExtractText(els, selectors, i + 1)

\* if link and not link.startswith('http'): link = origin + link
NormalizeLink(link, origin) ==
    IF Truthy(link) /\ ~StartsWith(link, HttpPrefix) THEN origin \o link ELSE link

\* the for/break loop for the apply link: the href of the first title
\* selector, from index i on, whose first match has a non-empty href
RECURSIVE ExtractLink(_, _, _)
ExtractLink(els, selectors, i) ==
    IF i > Len(selectors) THEN None
    ELSE LET link_elem == SelectOne(els, selectors[i])
         IN  IF link_elem # NoElem /\ Truthy(link_elem.href)
             THEN NormalizeLink(link_elem.href, NaukriOrigin)
             ELSE ExtractLink(els, selectors, i + 1)

\* the default applied to None only, not to ''
OrDefault_none(v) == IF v = None THEN NotSpecified ELSE v

\* value or 'Not specified'
OrDefault(v) == IF Truthy(v) THEN v ELSE NotSpecified

\* the five values a Naukri card yields before the keep test
NaukriFields(els) ==
    [title      |-> ExtractText(els, title_selectors, 1),
     company    |-> ExtractText(els, company_selectors, 1),
     location   |-> ExtractText(els, location_selectors, 1),
     experience |-> ExtractText(els, exp_selectors, 1),
     link       |-> ExtractLink(els, title_selectors, 1)]

\* x.get_text(strip=True) if x else None
TextOrNone(elem) == IF elem # NoElem THEN GetText(elem) ELSE None

\* link_elem.get('href') if link_elem else None
HrefOrNone(elem) == IF elem # NoElem THEN elem.href ELSE None

\* the values an Indeed or Monster card yields before the keep test
SimpleFields(els, cfg) ==
    [title      |-> TextOrNone(SelectOne(els, cfg.title)),
     company    |-> TextOrNone(SelectOne(els, cfg.company)),
     location   |-> TextOrNone(SelectOne(els, cfg.location)),
     experience |-> None,
     link       |-> NormalizeLink(HrefOrNone(SelectOne(els, cfg.link)), cfg.origin)]

\* if title and link: the card is kept
Kept(f) == Truthy(f.title) /\ Truthy(f.link)

\* the dict appended for a kept card
MakeRecord(f, platform) ==
    [jobTitle   |-> f.title,
     company    |-> OrDefault(f.company),
     location   |-> OrDefault(f.location),
     experience |-> OrDefault(f.experience),
     applyLink  |-> f.link,
     platform   |-> platform]

(***************************************************************************)
(* The markup the sites may answer with.  Elements and job cards are       *)
(* chosen so that every selector table is exercised: several rules of one  *)
(* field matching, a first match without text, missing fields, relative    *)
(* and absolute hrefs, and a card whose parsing raises.                    *)
(***************************************************************************)
El(tag, cls, text, href) ==
    [tag |-> tag, cls |-> cls, attrs |-> {}, ancTags |-> {}, ancCls |-> {},
     text |-> text, href |-> href]
ElUnder(tag, ancTag, ancCls, text, href) ==
    [tag |-> tag, cls |-> {}, attrs |-> {}, ancTags |-> {ancTag}, ancCls |-> ancCls,
     text |-> text, href |-> href]
Block(cls, attrs, els, raises) ==
    [tag |-> "div", cls |-> cls, attrs |-> attrs, ancTags |-> {}, ancCls |-> {},
     text |-> <<>>, href |-> None, els |-> els, raises |-> raises]

TxtDev == <<"D","e","v">>
TxtDevPadded == <<" ","D","e","v","\n">>
TxtQa == <<"Q","A">>
TxtBlank == <<" ","\n">>
TxtAcme == <<"A","c","m","e">>
TxtPune == <<"P","u","n","e">>
TxtYears == <<"2","y">>

HrefRel == <<"/","j","1">>
HrefAbs == <<"h","t","t","p","s",":","/","/","x","/","j">>
HrefHttpDir == <<"h","t","t","p","-","x","/","j">>
HrefViewRel == <<"/","v","i","e","w","j","o","b","?","1">>
HrefViewAbs == <<"h","t","t","p",":","/","/","e","/","v","i","e","w","j","o","b">>
HrefViewHttpDir == <<"h","t","t","p","x","/","v","i","e","w","j","o","b">>
HrefJobRel == <<"/","j","o","b","/","1">>
HrefJobAbs == <<"h","t","t","p","s",":","/","/","m","/","j","o","b","/","2">>
HrefJobHttpDir == <<"h","t","t","p","-","x","/","j","o","b","/","3">>

\* Naukri cards
NkFull ==
    << El("a", {"title"}, TxtDevPadded, HrefRel), El("a", {"comp-name"}, TxtAcme, None),
       El("span", {"locWdth"}, TxtPune, None), El("span", {"expwdth"}, TxtYears, None) >>
NkBare == << El("a", {"title"}, TxtDev, HrefAbs) >>
NkNoLink == << El("div", {"job-title"}, TxtQa, None) >>
NkOrder ==
    << El("div", {"job-title"}, TxtQa, None), El("a", {"title"}, TxtDev, HrefRel),
       El("a", {"compName"}, TxtBlank, None), El("div", {"company-name"}, TxtAcme, None) >>
NkEmptyFirst ==
    << El("a", {"title"}, TxtBlank, HrefRel), El("div", {"job-title"}, TxtQa, None),
       El("span", {"location"}, <<>>, None) >>
NkHttpDir == << El("a", {"title"}, TxtDev, HrefHttpDir) >>
NkHeading == << ElUnder("a", "h2", {}, TxtQa, HrefRel) >>

NaukriBlocks ==
    { Block({"srp-jobtuple-wrapper"}, {}, NkFull, FALSE),
      Block({"srp-jobtuple-wrapper"}, {}, NkNoLink, FALSE),
      Block({"srp-jobtuple-wrapper"}, {}, NkOrder, FALSE),
      Block({"srp-jobtuple-wrapper"}, {}, NkEmptyFirst, FALSE),
      Block({"srp-jobtuple-wrapper"}, {}, NkHttpDir, FALSE),
      Block({"srp-jobtuple-wrapper"}, {}, NkBare, TRUE),
      Block({"jobTuple", "bgWhite", "br4", "mb-8"}, {}, NkHeading, FALSE),
      Block({"row"}, {}, NkBare, FALSE),
      Block({"row"}, {}, NkNoLink, FALSE),
      Block({}, {"data-job-id"}, NkBare, FALSE) }

\* Indeed cards
InFull ==
    << El("h2", {"jobTitle"}, TxtDevPadded, None), El("span", {"companyName"}, TxtAcme, None),
       El("div", {"companyLocation"}, TxtPune, None), El("a", {}, <<>>, HrefViewRel) >>
InDocOrder ==
    << El("a", {"jobTitle"}, TxtQa, HrefViewAbs), El("h2", {"jobTitle"}, TxtDev, None) >>
InEmptyFirst ==
    << El("h2", {"jobTitle"}, TxtBlank, None), El("a", {"jobTitle"}, TxtQa, HrefViewRel) >>
InNoLink == << El("h2", {"title"}, TxtDev, None), El("a", {}, TxtQa, HrefRel) >>
InBlankCompany ==
    << El("h2", {"jobTitle"}, TxtDev, None), El("span", {"companyName"}, TxtBlank, None),
       El("a", {}, <<>>, HrefViewRel) >>
InHttpDir == << El("h2", {"jobTitle"}, TxtDev, None), El("a", {}, <<>>, HrefViewHttpDir) >>

IndeedBlocks ==
    { Block({"job_seen_beacon"}, {}, InFull, FALSE),
      Block({"job_seen_beacon"}, {}, InDocOrder, FALSE),
      Block({"job_seen_beacon"}, {}, InEmptyFirst, FALSE),
      Block({"job_seen_beacon"}, {}, InNoLink, FALSE),
      Block({"job_seen_beacon"}, {}, InHttpDir, FALSE),
      Block({"job_seen_beacon"}, {}, InFull, TRUE),
      Block({"cardOutline"}, {}, InBlankCompany, FALSE),
      Block({"row"}, {}, InFull, FALSE) }

\* Monster cards
MoFull ==
    << El("h3", {"medium"}, TxtDevPadded, None), El("div", {"company-name"}, TxtAcme, None),
       El("span", {"loc"}, TxtPune, None), El("a", {}, <<>>, HrefJobRel) >>
MoDocOrder ==
    << El("a", {"job-title"}, TxtQa, HrefJobAbs), El("h3", {"medium"}, TxtDev, None) >>
MoNoLink == << El("h3", {"title"}, TxtDev, None), El("a", {}, TxtQa, HrefRel) >>
MoBlankLocation ==
    << El("h3", {"medium"}, TxtDev, None), El("span", {"location"}, TxtBlank, None),
       El("a", {}, <<>>, HrefJobRel) >>
MoHttpDir == << El("h3", {"medium"}, TxtDev, None), El("a", {}, <<>>, HrefJobHttpDir) >>

MonsterBlocks ==
    { Block({"card-apply-content"}, {}, MoFull, FALSE),
      Block({"card-apply-content"}, {}, MoDocOrder, FALSE),
      Block({"card-apply-content"}, {}, MoNoLink, FALSE),
      Block({"card-apply-content"}, {}, MoHttpDir, FALSE),
      Block({"card-apply-content"}, {}, MoFull, TRUE),
      Block({"srp-jobtuple-wrapper"}, {}, MoBlankLocation, FALSE),
      Block({"row"}, {}, MoFull, FALSE) }

\* response.text parsed by BeautifulSoup: up to MaxCards blocks in document order
Pages(blocks) == UNION { [1..n -> blocks] : n \in 0..MaxCards }

\* the keyword query parameter
Keywords ==
    { <<>>, <<" ">>, <<" ","\t">>, <<"p","y">>, <<" ","a"," ","b">> }

\* the max_jobs query parameter
Limits == (0 - MaxNeg)..MaxLimit

\* requests.get failing: the exceptions it raises
FetchErrors == {"Timeout", "ConnectionError"}

(***************************************************************************)
(* State of one /scrape/ request                                           *)
(***************************************************************************)
VARIABLES
    pc,           \* position in scrape_data and the adapter it is running
    keyword,      \* query parameter
    max_jobs,     \* query parameter
    url_idx,      \* index into naukri_urls of the URL being tried
    sel_idx,      \* index into job_selectors of the selector being tried
    soup,         \* the parsed page of the last 200 response
    job_cards,    \* the cards the current selector matched
    card_idx,     \* position of the card loop in job_cards[:max_jobs]
    jobs,         \* the adapter's list of records (naukri_jobs / jobs)
    result,       \* scrape_data's jobs
    response,     \* the HTTP response of the request ([status |-> 0] until sent)
    calls,        \* the adapters invoked so far, in order
    ret_counts,   \* the number of records each finished adapter returned
    fetched,      \* the outbound fetches so far: <<platform, url index>>
    outcome,      \* how the last fetch ended
    last,         \* the card processed last and what was extracted from it
    first_match,  \* first job selector that matched on the current page, 0 if none
    late_consult, \* a job selector was consulted after another had matched on the page
    late_kept,    \* a job selector was consulted while naukri_jobs held records
    contrib       \* the <<url index, selector index>> pairs that added to naukri_jobs

vars ==
    <<pc, keyword, max_jobs, url_idx, sel_idx, soup, job_cards, card_idx, jobs, result,
      response, calls, ret_counts, fetched, outcome, last, first_match, late_consult,
      late_kept, contrib>>

locals == <<url_idx, sel_idx, soup, job_cards, card_idx, jobs>>
handler == <<result, response, calls, ret_counts>>
inputs == <<keyword, max_jobs>>
page_history == <<first_match, late_consult, late_kept, contrib>>

naukri_urls == <<"{kw}-jobs", "jobs-by-{kw}", "{kw}-jobs-in-india">>

NoCard == [platform |-> "", els |-> <<>>, raised |-> FALSE, kept |-> FALSE,
           fields |-> [title |-> None, company |-> None, location |-> None,
                       experience |-> None, link |-> None]]

Init ==
    /\ pc = "request"
    /\ keyword \in Keywords
    /\ max_jobs \in Limits
    /\ url_idx = 0
    /\ sel_idx = 0
    /\ soup = <<>>
    /\ job_cards = <<>>
    /\ card_idx = 0
    /\ jobs = <<>>
    /\ result = <<>>
    /\ response = [status |-> 0, body |-> <<>>]
    /\ calls = <<>>
    /\ ret_counts = <<>>
    /\ fetched = <<>>
    /\ outcome = ""
    /\ last = NoCard
    /\ first_match = 0
    /\ late_consult = FALSE
    /\ late_kept = FALSE
    /\ contrib = {}

(***************************************************************************)
(* scrape_data                                                             *)
(***************************************************************************)
\* the keyword test without strip()
IsBlank_nostrip(k) == k = <<>>

\* if not keyword.strip()
IsBlank(k) == Strip(k) = <<>>

\* an answer that turns "no jobs" into an error status
Respond_404(js) ==
    IF js = <<>> THEN [status |-> 404, body |-> <<>>] ELSE [status |-> 200, body |-> js]

\* return jobs: FastAPI answers 200 with the list
Respond(js) == [status |-> 200, body |-> js]

\* the fallback chain without the `if not jobs` tests
NextSource_always(platform, js) ==
    CASE platform = "Naukri" -> "Indeed"
      [] platform = "Indeed" -> "Monster"
      [] OTHER -> ""

\* the adapter scrape_data calls after `platform` returned js, "" to return
NextSource(platform, js) ==
    CASE platform = "Naukri" /\ js = <<>> -> "Indeed"
      [] platform = "Indeed" /\ js = <<>> -> "Monster"
      [] OTHER -> ""

FetchPc(platform) ==
    CASE platform = "Naukri" -> "naukri_fetch"
      [] platform = "Indeed" -> "indeed_fetch"
      [] platform = "Monster" -> "monster_fetch"

\* the adapter `platform` returns js to scrape_data, which falls back to the
\* next adapter or answers
AdapterReturn(platform, js) ==
    /\ result' = js
    /\ ret_counts' = Append(ret_counts, Len(js))
    /\ url_idx' = 0
    /\ sel_idx' = 0
    /\ soup' = <<>>
    /\ job_cards' = <<>>
    /\ card_idx' = 0
    /\ jobs' = <<>>
    /\ IF NextSource(platform, js) = ""
       THEN /\ pc' = "done"
            /\ response' = Respond(js)
            /\ calls' = calls
       ELSE /\ pc' = FetchPc(NextSource(platform, js))
            /\ response' = response
            /\ calls' = Append(calls, NextSource(platform, js))

\* the keyword check and the call of the first adapter
scrape_data ==
    /\ pc = "request"
    /\ IF IsBlank(keyword)
       THEN /\ pc' = "done"
            /\ response' = [status |-> 400, body |-> <<>>]
            /\ UNCHANGED <<calls, url_idx>>
       ELSE /\ pc' = "naukri_fetch"
            /\ calls' = Append(calls, "Naukri")
            /\ url_idx' = 1
            /\ UNCHANGED response
    /\ UNCHANGED <<inputs, sel_idx, soup, job_cards, card_idx, jobs, result, ret_counts,
                   fetched, outcome, last, page_history>>

(***************************************************************************)
(* scrape_naukri_jobs                                                      *)
(***************************************************************************)
\* a failed URL ends the adapter instead of the iteration
NaukriNextUrl_abort == AdapterReturn("Naukri", <<>>)

\* continue of the URL loop; return [] after the last URL
NaukriNextUrl ==
    IF url_idx < Len(naukri_urls)
    THEN /\ pc' = "naukri_fetch"
         /\ url_idx' = url_idx + 1
         /\ sel_idx' = 0
         /\ soup' = <<>>
         /\ job_cards' = <<>>
         /\ card_idx' = 0
         /\ UNCHANGED <<jobs, handler>>
    ELSE AdapterReturn("Naukri", <<>>)

\* next iteration of the selector loop; the URL loop goes on after the last
NaukriNextSelector ==
    IF sel_idx < Len(job_selectors)
    THEN /\ pc' = "naukri_select"
         /\ sel_idx' = sel_idx + 1
         /\ job_cards' = <<>>
         /\ card_idx' = 0
         /\ UNCHANGED <<url_idx, soup, jobs, handler>>
    ELSE NaukriNextUrl

\* the card loop without the early return
AfterCards_continue(js) == "next_selector"

\* what follows the card loop: "return" when naukri_jobs holds records
AfterCards(js) == IF js # <<>> THEN "return" ELSE "next_selector"

\* requests.get answers 200 and the page is parsed
naukri_fetch_ok ==
    /\ pc = "naukri_fetch"
    /\ \E p \in Pages(NaukriBlocks) : soup' = p
    /\ pc' = "naukri_select"
    /\ sel_idx' = 1
    /\ fetched' = Append(fetched, <<"Naukri", url_idx>>)
    /\ outcome' = "200"
    /\ first_match' = 0
    /\ UNCHANGED <<inputs, url_idx, job_cards, card_idx, jobs, handler, last,
                   late_consult, late_kept, contrib>>

\* requests.get answers another status: nothing is parsed for this URL
naukri_fetch_non200 ==
    /\ pc = "naukri_fetch"
    /\ fetched' = Append(fetched, <<"Naukri", url_idx>>)
    /\ outcome' = "non200"
    /\ NaukriNextUrl
    /\ UNCHANGED <<inputs, last, page_history>>

\* requests.get raises: except Exception ... continue
naukri_fetch_exception ==
    /\ pc = "naukri_fetch"
    /\ fetched' = Append(fetched, <<"Naukri", url_idx>>)
    /\ \E e \in FetchErrors : outcome' = e
    /\ NaukriNextUrl
    /\ UNCHANGED <<inputs, last, page_history>>

\* job_cards = soup.select(selector)
naukri_select ==
    /\ pc = "naukri_select"
    /\ late_consult' = (late_consult \/ first_match # 0)
    /\ late_kept' = (late_kept \/ jobs # <<>>)
    /\ LET cards == Select(soup, job_selectors[sel_idx])
       IN  IF cards # <<>>
           THEN /\ job_cards' = cards
                /\ card_idx' = 1
                /\ pc' = "naukri_cards"
                /\ first_match' = IF first_match = 0 THEN sel_idx ELSE first_match
                /\ UNCHANGED <<url_idx, sel_idx, soup, jobs, handler>>
           ELSE /\ NaukriNextSelector
                /\ UNCHANGED first_match
    /\ UNCHANGED <<inputs, fetched, outcome, last, contrib>>

\* one iteration of: for card in job_cards[:max_jobs]
naukri_card ==
    /\ pc = "naukri_cards"
    /\ card_idx <= Len(PySlice(job_cards, max_jobs))
    /\ LET card == job_cards[card_idx]
           f == NaukriFields(card.els)
           keep == ~card.raises /\ Kept(f)
       IN  /\ jobs' = IF keep THEN Append(jobs, MakeRecord(f, "Naukri")) ELSE jobs
           /\ contrib' = IF keep THEN contrib \cup {<<url_idx, sel_idx>>} ELSE contrib
           /\ last' = [platform |-> "Naukri", els |-> card.els, raised |-> card.raises,
                       kept |-> keep, fields |-> IF card.raises THEN NoCard.fields ELSE f]
    /\ card_idx' = card_idx + 1
    /\ UNCHANGED <<inputs, pc, url_idx, sel_idx, soup, job_cards, handler, fetched, outcome,
                   first_match, late_consult, late_kept>>

\* after the card loop: return naukri_jobs[:max_jobs] or try the next selector
naukri_after_cards ==
    /\ pc = "naukri_cards"
    /\ card_idx > Len(PySlice(job_cards, max_jobs))
    /\ IF AfterCards(jobs) = "return"
       THEN AdapterReturn("Naukri", PySlice(jobs, max_jobs))
       ELSE NaukriNextSelector
    /\ UNCHANGED <<inputs, fetched, outcome, last, page_history>>

(***************************************************************************)
(* scrape_indeed_jobs and scrape_monster_jobs: the same control flow over  *)
(* their own selector groups                                               *)
(***************************************************************************)
CardsPc(platform) == IF platform = "Indeed" THEN "indeed_cards" ELSE "monster_cards"

\* requests.get answers 200: the page is parsed and the cards selected
SimpleFetchOk(cfg, blocks) ==
    /\ pc = FetchPc(cfg.platform)
    /\ \E p \in Pages(blocks) :
          /\ soup' = p
          /\ job_cards' = Select(p, cfg.cards)
    /\ card_idx' = 1
    /\ pc' = CardsPc(cfg.platform)
    /\ fetched' = Append(fetched, <<cfg.platform, 1>>)
    /\ outcome' = "200"
    /\ UNCHANGED <<inputs, url_idx, sel_idx, jobs, handler, last, page_history>>

\* requests.get answers another status: return jobs, still empty
SimpleFetchNon200(cfg) ==
    /\ pc = FetchPc(cfg.platform)
    /\ fetched' = Append(fetched, <<cfg.platform, 1>>)
    /\ outcome' = "non200"
    /\ AdapterReturn(cfg.platform, jobs)
    /\ UNCHANGED <<inputs, last, page_history>>

\* requests.get raises: except Exception ... return []
SimpleFetchException(cfg) ==
    /\ pc = FetchPc(cfg.platform)
    /\ fetched' = Append(fetched, <<cfg.platform, 1>>)
    /\ \E e \in FetchErrors : outcome' = e
    /\ AdapterReturn(cfg.platform, <<>>)
    /\ UNCHANGED <<inputs, last, page_history>>

\* one iteration of: for card in job_cards[:max_jobs]
SimpleCard(cfg) ==
    /\ pc = CardsPc(cfg.platform)
    /\ card_idx <= Len(PySlice(job_cards, max_jobs))
    /\ LET card == job_cards[card_idx]
           f == SimpleFields(card.els, cfg)
           keep == ~card.raises /\ Kept(f)
       IN  /\ jobs' = IF keep THEN Append(jobs, MakeRecord(f, cfg.platform)) ELSE jobs
           /\ last' = [platform |-> cfg.platform, els |-> card.els, raised |-> card.raises,
                       kept |-> keep, fields |-> IF card.raises THEN NoCard.fields ELSE f]
    /\ card_idx' = card_idx + 1
    /\ UNCHANGED <<inputs, pc, url_idx, sel_idx, soup, job_cards, handler, fetched, outcome,
                   page_history>>

\* after the card loop: return jobs
SimpleReturn(cfg) ==
    /\ pc = CardsPc(cfg.platform)
    /\ card_idx > Len(PySlice(job_cards, max_jobs))
    /\ AdapterReturn(cfg.platform, jobs)
    /\ UNCHANGED <<inputs, fetched, outcome, last, page_history>>

indeed_fetch_ok ==
    /\ pc = "indeed_fetch"
    /\ SimpleFetchOk(IndeedConfig, IndeedBlocks)
indeed_fetch_non200 ==
    /\ pc = "indeed_fetch"
    /\ SimpleFetchNon200(IndeedConfig)
indeed_fetch_exception ==
    /\ pc = "indeed_fetch"
    /\ SimpleFetchException(IndeedConfig)
indeed_card ==
    /\ pc = "indeed_cards"
    /\ SimpleCard(IndeedConfig)
indeed_return ==
    /\ pc = "indeed_cards"
    /\ SimpleReturn(IndeedConfig)

monster_fetch_ok ==
    /\ pc = "monster_fetch"
    /\ SimpleFetchOk(MonsterConfig, MonsterBlocks)
monster_fetch_non200 ==
    /\ pc = "monster_fetch"
    /\ SimpleFetchNon200(MonsterConfig)
monster_fetch_exception ==
    /\ pc = "monster_fetch"
    /\ SimpleFetchException(MonsterConfig)
monster_card ==
    /\ pc = "monster_cards"
    /\ SimpleCard(MonsterConfig)
monster_return ==
    /\ pc = "monster_cards"
    /\ SimpleReturn(MonsterConfig)

Next ==
    \/ scrape_data
    \/ naukri_fetch_ok
    \/ naukri_fetch_non200
    \/ naukri_fetch_exception
    \/ naukri_select
    \/ naukri_card
    \/ naukri_after_cards
    \/ indeed_fetch_ok
    \/ indeed_fetch_non200
    \/ indeed_fetch_exception
    \/ indeed_card
    \/ indeed_return
    \/ monster_fetch_ok
    \/ monster_fetch_non200
    \/ monster_fetch_exception
    \/ monster_card
    \/ monster_return

Spec == Init /\ [][Next]_vars

(***************************************************************************)
(* Properties                                                              *)
(***************************************************************************)
Priority(platform) ==
    CASE platform = "Naukri" -> 1 [] platform = "Indeed" -> 2 [] platform = "Monster" -> 3

SourceOrder == <<"Naukri", "Indeed", "Monster">>

\* a keyword that is empty or holds only whitespace
BlankKeyword(k) == \A i \in 1..Len(k) : k[i] \in Whitespace

\* C1: the adapters are invoked one at a time in the order Naukri, Indeed,
\* Monster; an adapter is invoked only after every adapter before it has
\* returned no record, and the answer is what the last invoked adapter returned.
C1_FallbackOrder ==
    /\ Len(calls) <= 3
    /\ \A i \in 1..Len(calls) : calls[i] = SourceOrder[i]
    /\ Len(ret_counts) <= Len(calls)
    /\ Len(calls) <= Len(ret_counts) + 1
    /\ \A i \in 1..Len(ret_counts) : ret_counts[i] > 0 => Len(calls) = i
    /\ \A i \in 1..Len(fetched) : \A j \in i..Len(fetched) :
          Priority(fetched[i][1]) <= Priority(fetched[j][1])
    /\ \A i \in 1..Len(fetched) : Priority(fetched[i][1]) <= Len(calls)
    /\ (pc = "done" /\ calls # <<>>) =>
          /\ Len(ret_counts) = Len(calls)
          /\ response.body = result
          /\ Len(result) = ret_counts[Len(ret_counts)]
          /\ (result = <<>> => Len(calls) = 3)

\* Indeed returned a record after Naukri returned none; Monster was not invoked
C1_Witness ==
    /\ pc = "done"
    /\ calls = <<"Naukri", "Indeed">>
    /\ ret_counts = <<0, 1>>
    /\ \A i \in 1..Len(fetched) : fetched[i][1] # "Monster"

\* C2: for a non-blank keyword the answer is never an error status, and when
\* all three adapters returned no record (after failed fetches, non-200
\* answers, pages without records or cards that raised) it is 200 with [].
C2_EmptyOnTotalFailure ==
    ~BlankKeyword(keyword) =>
        /\ response.status \in {0, 200}
        /\ pc = "done" => response.status = 200
        /\ (pc = "done" /\ \A i \in 1..Len(ret_counts) : ret_counts[i] = 0) =>
              response = [status |-> 200, body |-> <<>>]

\* all three adapters were tried, the last fetch timed out, the answer is 200 []
C2_Witness ==
    /\ pc = "done"
    /\ ~BlankKeyword(keyword)
    /\ ret_counts = <<0, 0, 0>>
    /\ outcome = "Timeout"
    /\ last.raised
    /\ response = [status |-> 200, body |-> <<>>]

Letters ==
    {"a","b","c","d","e","f","g","h","i","j","k","l","m","n","o","p","q","r","s","t","u",
     "v","w","x","y","z"}
Digits == {"0","1","2","3","4","5","6","7","8","9"}

\* the string starts with a URL scheme: a letter, then letters, digits, "+",
\* "-" or ".", then ":"
StartsWithScheme(s) ==
    \E i \in 2..Len(s) :
        /\ s[i] = ":"
        /\ s[1] \in Letters
        /\ \A j \in 2..(i - 1) : s[j] \in Letters \cup Digits \cup {"+", "-", "."}

\* every record the request holds: the running adapter's, scrape_data's and
\* the response's
Records ==
    {jobs[i] : i \in 1..Len(jobs)} \cup {result[i] : i \in 1..Len(result)}
        \cup {response.body[i] : i \in 1..Len(response.body)}

\* C3: every emitted record has a non-empty jobTitle and a non-empty
\* applyLink that is an absolute URL (starts with a URL scheme).
C3_TitleAndAbsoluteLink ==
    \A r \in Records :
        /\ r.jobTitle # <<>>
        /\ r.jobTitle # None
        /\ r.applyLink # <<>>
        /\ r.applyLink # None
        /\ StartsWithScheme(r.applyLink)

\* C4: the answer to scrape(k, n) holds at most n records (none when n is
\* negative), whichever adapter produced them.
C4_AtMostLimit ==
    (pc = "done" /\ response.status = 200) =>
        Len(response.body) <= Max(max_jobs, 0)

\* the card processed last was kept by the running adapter: its record is
\* the last of jobs
LastKept ==
    /\ last.kept
    /\ jobs # <<>>
    /\ pc = (CASE last.platform = "Naukri" -> "naukri_cards"
               [] last.platform = "Indeed" -> "indeed_cards"
               [] last.platform = "Monster" -> "monster_cards"
               [] OTHER -> "")

LastRecord == jobs[Len(jobs)]

\* the rules of a field in an adapter, one selector group per rule
FieldRules(platform, field) ==
    CASE platform = "Naukri" /\ field = "company" -> company_selectors
      [] platform = "Naukri" /\ field = "location" -> location_selectors
      [] platform = "Naukri" /\ field = "experience" -> exp_selectors
      [] platform = "Indeed" /\ field = "company" -> <<IndeedConfig.company>>
      [] platform = "Indeed" /\ field = "location" -> <<IndeedConfig.location>>
      [] platform = "Monster" /\ field = "company" -> <<MonsterConfig.company>>
      [] platform = "Monster" /\ field = "location" -> <<MonsterConfig.location>>
      [] OTHER -> <<>>

\* no element of the card matches any rule of the field
FieldAbsent(els, rules) == \A i \in 1..Len(rules) : Select(els, rules[i]) = <<>>

\* C6: company, location and experience of every record are never empty or
\* null; each is the text extracted for the field when that is non-empty and
\* exactly "Not specified" otherwise, in particular when no element of the
\* card matches a rule of the field.
C6_DefaultedFields ==
    /\ \A r \in Records : \A fld \in {"company", "location", "experience"} :
          r[fld] # <<>> /\ r[fld] # None
    /\ LastKept =>
          \A fld \in {"company", "location", "experience"} :
             /\ Truthy(last.fields[fld]) => LastRecord[fld] = last.fields[fld]
             /\ ~Truthy(last.fields[fld]) => LastRecord[fld] = NotSpecified
             /\ FieldAbsent(last.els, FieldRules(last.platform, fld)) =>
                   LastRecord[fld] = NotSpecified

\* an Indeed card whose company element has only whitespace was kept with
\* company "Not specified", and its location is the extracted text
C6_Witness ==
    /\ LastKept
    /\ last.platform = "Indeed"
    /\ last.fields.company = <<>>
    /\ LastRecord.company = NotSpecified
    /\ LastRecord.experience = NotSpecified
    /\ FieldAbsent(last.els, FieldRules("Indeed", "location"))
    /\ LastRecord.location = NotSpecified

\* C7: a request whose keyword is empty or only whitespace is answered 400
\* and no adapter is invoked and no fetch issued for it.
C7_BlankKeywordRejected ==
    BlankKeyword(keyword) =>
        /\ calls = <<>>
        /\ fetched = <<>>
        /\ pc \in {"request", "done"}
        /\ pc = "done" => response = [status |-> 400, body |-> <<>>]

\* the keyword " \t" was answered 400 without any adapter call
C7_Witness ==
    /\ pc = "done"
    /\ keyword = <<" ", "\t">>
    /\ response.status = 400
    /\ calls = <<>>

\* the stripped text of the first element matching the rule, '' without a match
RuleText(els, rule) ==
    IF Select(els, rule) = <<>> THEN <<>> ELSE Strip(Select(els, rule)[1].text)

\* the rules whose first match has non-empty text
Winners(els, rules) == {i \in 1..Len(rules) : RuleText(els, rules[i]) # <<>>}

\* v is what rule-order precedence yields: the text of the first rule, in
\* rule order, whose first match has non-empty text; absent when there is none
FollowsRuleOrder(v, els, rules) ==
    IF Winners(els, rules) = {}
    THEN ~Truthy(v)
    ELSE \E i \in Winners(els, rules) :
            /\ \A j \in Winners(els, rules) : i <= j
            /\ v = RuleText(els, rules[i])

\* v is the stripped text of the first element, in document order, that
\* matches any alternative of the group, whether or not that text is empty
FollowsDocumentOrder(v, els, group) ==
    IF Select(els, group) = <<>> THEN v = None ELSE v = Strip(Select(els, group)[1].text)

\* the alternatives of a selector group as rules of their own, in written order
SplitRules(group) == [i \in 1..Len(group) |-> <<group[i]>>]

NaukriRules(field) ==
    CASE field = "title" -> title_selectors
      [] field = "company" -> company_selectors
      [] field = "location" -> location_selectors
      [] field = "experience" -> exp_selectors

SimpleConfig(platform) == IF platform = "Indeed" THEN IndeedConfig ELSE MonsterConfig

KeptCard(platform, card) ==
    /\ ~card.raises
    /\ IF platform = "Naukri"
       THEN Kept(NaukriFields(card.els))
       ELSE Kept(SimpleFields(card.els, SimpleConfig(platform)))

\* the number of cards the loop over cards[:n] visits
Visited(cards, n) ==
    IF n >= 0 THEN Min(n, Len(cards)) ELSE Max(0, Len(cards) + n)

\* the number of kept cards among the first k
KeptAmong(platform, cards, k) ==
    Cardinality({i \in 1..k : KeptCard(platform, cards[i])})

\* C8 as stated: once a job selector has matched on a page, no later job
\* selector is consulted for that page, and records of different selectors
\* are never merged.
C8_FirstContainerWins ==
    /\ ~late_consult
    /\ Cardinality(contrib) <= 1

\* C8 amended: the job selectors are tried in order and the search of a page
\* ends at the first selector whose visited cards yield at least one kept
\* record: no later selector is consulted for that page, while a selector
\* that matched without yielding a kept record is followed by the next one;
\* records of different selectors are never merged.
C8_FirstProductiveContainerWins ==
    /\ ~late_kept
    /\ Cardinality(contrib) <= 1
    /\ pc = "naukri_select" => jobs = <<>>
    /\ pc \in {"naukri_select", "naukri_cards"} =>
          /\ sel_idx \in 1..Len(job_selectors)
          /\ first_match <= sel_idx
          /\ \A i \in 1..(sel_idx - 1) :
                LET cards == Select(soup, job_selectors[i])
                IN  KeptAmong("Naukri", cards, Visited(cards, max_jobs)) = 0
    /\ (pc = "naukri_cards" /\ jobs # <<>>) => contrib = {<<url_idx, sel_idx>>}

\* a later job selector produced the records after an earlier one had matched
\* cards of which none was kept
C8_Witness ==
    /\ pc = "naukri_cards"
    /\ jobs # <<>>
    /\ first_match # 0
    /\ first_match < sel_idx
    /\ late_consult
    /\ contrib = {<<url_idx, sel_idx>>}

NaukriFetches == SelectSeq(fetched, LAMBDA f : f[1] = "Naukri")

\* C9: an adapter fetches its candidate URLs in order, each at most once; a
\* fetch that raises or answers a non-200 status is followed by the next
\* candidate; the adapter returns at the first URL that yields a record,
\* without fetching a later one, and returns no record once every candidate
\* has yielded nothing.
C9_UrlFallback ==
    /\ Len(NaukriFetches) <= Len(naukri_urls)
    /\ \A i \in 1..Len(NaukriFetches) : NaukriFetches[i][2] = i
    /\ \A pf \in {"Indeed", "Monster"} :
          Len(SelectSeq(fetched, LAMBDA f : f[1] = pf)) <= 1
    /\ pc = "naukri_fetch" =>
          /\ url_idx = Len(NaukriFetches) + 1
          /\ url_idx <= Len(naukri_urls)
          /\ contrib = {}
    /\ pc \in {"naukri_select", "naukri_cards"} =>
          /\ url_idx = Len(NaukriFetches)
          /\ outcome = "200"
    /\ Len(ret_counts) >= 1 =>
          IF contrib = {}
          THEN ret_counts[1] = 0 /\ Len(NaukriFetches) = Len(naukri_urls)
          ELSE \A c \in contrib : Len(NaukriFetches) = c[1]
    /\ (outcome \notin {"", "200"} /\ pc \notin {"naukri_fetch"}) =>
          ret_counts # <<>> /\ ret_counts[Len(ret_counts)] = 0
    /\ response.status \in {0, 200, 400}

\* the second Naukri URL timed out and the adapter goes on to the third
C9_Witness ==
    /\ pc = "naukri_fetch"
    /\ url_idx = 3
    /\ outcome = "Timeout"
    /\ fetched = <<<<"Naukri", 1>>, <<"Naukri", 2>>>>

\* the card loop of the running adapter has ended
LoopEnded ==
    /\ pc \in {"naukri_cards", "indeed_cards", "monster_cards"}
    /\ card_idx > Visited(job_cards, max_jobs)

RunningPlatform == calls[Len(calls)]

\* C10 as stated, for a limit that is a count: when the matched cards hold at
\* least `limit` cards with title and link, the loop ends with exactly
\* `limit` records.
C10_LimitCountsKept ==
    (LoopEnded /\ max_jobs >= 0
       /\ KeptAmong(RunningPlatform, job_cards, Len(job_cards)) >= max_jobs) =>
        Len(jobs) = max_jobs

\* C10 amended: the loop visits exactly the cards of job_cards[:limit], kept
\* or not, so a discarded card does count against the limit; the records it
\* produces are those of the kept cards among them, and they are exactly
\* `limit` when the first `limit` cards all have title and link.
C10_LimitCountsCards ==
    pc \in {"naukri_cards", "indeed_cards", "monster_cards"} =>
        /\ card_idx >= 1
        /\ card_idx <= Visited(job_cards, max_jobs) + 1
        /\ Len(jobs) = KeptAmong(RunningPlatform, job_cards, card_idx - 1)
        /\ (LoopEnded /\ max_jobs >= 0 /\ Len(job_cards) >= max_jobs
              /\ \A i \in 1..max_jobs : KeptCard(RunningPlatform, job_cards[i])) =>
               Len(jobs) = max_jobs

\* with limit 1 the loop ended without a record although the second matched
\* card has title and link: the discarded first card used up the limit
C10_Witness ==
    /\ LoopEnded
    /\ max_jobs = 1
    /\ Len(job_cards) = 2
    /\ ~KeptCard(RunningPlatform, job_cards[1])
    /\ KeptCard(RunningPlatform, job_cards[2])
    /\ card_idx = 2
    /\ jobs = <<>>

====
